---- MODULE Spec2Model ----
(***************************************************************************)
(* A model of the Hive adapter of datus-db-adapters:                       *)
(*   datus_hive/config.py     _extract_prefixed_config, HiveConfig         *)
(*   datus_hive/connector.py  HiveConnector                                *)
(*                                                                         *)
(* Python strings are sequences of one-character strings, so that          *)
(* startswith, slicing, strip, lower, replace and str/int conversions are  *)
(* computed character by character.  Python values are tagged records:     *)
(* None, str, int, bool and dict are told apart by their tag.              *)
(***************************************************************************)
EXTENDS Integers, Sequences, FiniteSets, TLC

VARIABLES
    pc,             \* "input" before the operation ran, "done" after it
                    \* returned, "raised" after it raised
    op,             \* the operation that ran ("" before)
    carrier_map,    \* config: the carrier map handed to from_config_map
    prefix,         \* config: the prefix handed to from_config_map
    kwargs,         \* config: the keywords handed to HiveConfig(**kwargs)
    origin,         \* config: the record the carrier map was flattened from
    config,         \* config: the outcome of the construction
    result,         \* connector: the tabular result of the metadata query
    raised,         \* connector: whether running the call's query (of a DDL
                    \* call: its listing query) raised
    names,          \* connector: what the name extraction / listing returned
    table_name,     \* connector: get_schema's table_name argument
    rows,           \* connector: what get_schema returned
    engine,         \* connector: self.engine, None or the engine created
    connection,     \* connector: self.connection, None or that of the engine
    owns_engine,    \* connector: self._owns_engine
    engines,        \* connector: how many times create_engine was called
    connects,       \* connector: how many times connect was called
    database_name,  \* connector: self.database_name
    database_arg,   \* connector: the database_name argument of the call
    statements,     \* connector: the statements the call has issued, in order
    entries,        \* connector: what get_tables_with_ddl / get_views_with_ddl returned
    calls,          \* connector: how many calls were made on the connector
    configuration,  \* settings: the mapping handed to _normalize_configuration
    normalized,     \* settings: what _normalize_configuration returned
    identifier,     \* quoting: the identifiers handed to _quote_identifier
    quoted          \* quoting: what _quote_identifier returned for each

vars == <<pc, op, carrier_map, prefix, kwargs, origin, config, result, raised,
          names, table_name, rows, engine, connection, owns_engine, engines,
          connects, database_name, database_arg, statements, entries, calls,
          configuration, normalized, identifier, quoted>>

configVars == <<carrier_map, prefix, kwargs, origin, config>>
engineVars == <<engine, connection, owns_engine, engines, connects>>
sessionVars == <<engineVars, database_name, database_arg, statements, entries,
                 calls>>
connectorVars == <<result, raised, names, table_name, rows, sessionVars>>
settingsVars == <<configuration, normalized>>
quoteVars == <<identifier, quoted>>

-----------------------------------------------------------------------------
(* Python values *)

NoneV == [t |-> "none"]
StrV(s) == [t |-> "str", s |-> s]
IntV(n) == [t |-> "int", n |-> n]
BoolV(b) == [t |-> "bool", b |-> b]
DictV(d) == [t |-> "dict", d |-> d]

\* The empty dict {} : a mapping with no key.
EmptyMap == [k \in {} |-> NoneV]

\* Nothing was computed yet (the model's own marker, not a Python value).
Unset == [t |-> "unset"]

-----------------------------------------------------------------------------
(* Python string operations *)

\* str.startswith
StartsWith(s, p) == Len(s) >= Len(p) /\ SubSeq(s, 1, Len(p)) = p

\* s[n:]
Slice(s, n) == SubSeq(s, n + 1, Len(s))

Digits == <<"0", "1", "2", "3", "4", "5", "6", "7", "8", "9">>

IsDigitChar(c) == \E i \in 1..10 : Digits[i] = c

DigitValue(c) == (CHOOSE i \in 1..10 : Digits[i] = c) - 1

\* str.isdigit: non-empty and every character is a digit
IsDigit(s) == Len(s) > 0 /\ \A i \in 1..Len(s) : IsDigitChar(s[i])

\* int(s) for a string of digits
RECURSIVE ParseDigits(_)
ParseDigits(s) ==
    IF Len(s) = 0 THEN 0
    ELSE 10 * ParseDigits(SubSeq(s, 1, Len(s) - 1)) + DigitValue(s[Len(s)])

\* str(n) for an integer
RECURSIVE NatStr(_)
NatStr(n) ==
    IF n < 10 THEN <<Digits[n + 1]>>
    ELSE NatStr(n \div 10) \o <<Digits[(n % 10) + 1]>>

IntStr(n) == IF n < 0 THEN <<"-">> \o NatStr(0 - n) ELSE NatStr(n)

UpperCase == <<"A", "B", "C", "D", "E", "F", "G", "H", "I", "J", "K", "L", "M",
               "N", "O", "P", "Q", "R", "S", "T", "U", "V", "W", "X", "Y", "Z">>
LowerCase == <<"a", "b", "c", "d", "e", "f", "g", "h", "i", "j", "k", "l", "m",
               "n", "o", "p", "q", "r", "s", "t", "u", "v", "w", "x", "y", "z">>

LowerChar(c) ==
    IF \E i \in 1..26 : UpperCase[i] = c
    THEN LowerCase[CHOOSE i \in 1..26 : UpperCase[i] = c]
    ELSE c

\* str.lower
Lower(s) == [i \in 1..Len(s) |-> LowerChar(s[i])]

IsSpace(c) == c \in {" ", "\t", "\n", "\r", "\f"}

RECURSIVE LStrip(_)
LStrip(s) ==
    IF Len(s) > 0 /\ IsSpace(s[1]) THEN LStrip(Slice(s, 1)) ELSE s

RECURSIVE RStrip(_)
RStrip(s) ==
    IF Len(s) > 0 /\ IsSpace(s[Len(s)]) THEN RStrip(SubSeq(s, 1, Len(s) - 1)) ELSE s

\* str.strip
Strip(s) == RStrip(LStrip(s))

sTrue == <<"T", "r", "u", "e">>
sFalse == <<"F", "a", "l", "s", "e">>
sNone == <<"N", "o", "n", "e">>

\* str(value)
PyStr(v) ==
    CASE v.t = "str" -> v.s
      [] v.t = "int" -> IntStr(v.n)
      [] v.t = "bool" -> IF v.b THEN sTrue ELSE sFalse
      [] v.t = "none" -> sNone

-----------------------------------------------------------------------------
(* config.py *)

sHost == <<"h", "o", "s", "t">>
sPort == <<"p", "o", "r", "t">>
sDatabase == <<"d", "a", "t", "a", "b", "a", "s", "e">>
sUsername == <<"u", "s", "e", "r", "n", "a", "m", "e">>
sPassword == <<"p", "a", "s", "s", "w", "o", "r", "d">>
sAuth == <<"a", "u", "t", "h">>
sConfiguration == <<"c", "o", "n", "f", "i", "g", "u", "r", "a", "t", "i", "o", "n">>
sTimeoutSeconds == <<"t", "i", "m", "e", "o", "u", "t", "_", "s", "e", "c", "o", "n", "d", "s">>
sConfigurationDot == sConfiguration \o <<".">>

\* key[14:] : the number of characters cut off a "configuration." key
ConfigKeyOffset == 14

\* An extraction that skips the key equal to the prefix.
hive_config_skip_empty(cmap, pfx) ==
    LET matching == {key \in DOMAIN cmap : StartsWith(key, pfx) /\ key # pfx}
        local == {Slice(key, Len(pfx)) : key \in matching}
    IN  [kyuubi_key \in local |->
            cmap[CHOOSE key \in matching : Slice(key, Len(pfx)) = kyuubi_key]]

\* hive_config: the entries whose key starts with the prefix, the prefix cut off
hive_config(cmap, pfx) ==
    LET matching == {key \in DOMAIN cmap : StartsWith(key, pfx)}
        local == {Slice(key, Len(pfx)) : key \in matching}
    IN  [kyuubi_key \in local |->
            cmap[CHOOSE key \in matching : Slice(key, Len(pfx)) = kyuubi_key]]

\* Settings whose keys keep the "configuration." segment.
configuration_params_uncut(hc) ==
    LET matching == {key \in DOMAIN hc : StartsWith(key, sConfigurationDot)}
    IN  [config_key \in matching |-> hc[config_key]]

\* configuration_params: the "configuration." entries, that segment cut off
configuration_params(hc) ==
    LET matching == {key \in DOMAIN hc : StartsWith(key, sConfigurationDot)}
        cut == {Slice(key, ConfigKeyOffset) : key \in matching}
    IN  [config_key \in cut |->
            hc[CHOOSE key \in matching : Slice(key, ConfigKeyOffset) = config_key]]

\* base_params: the other entries; a digit-string port becomes an integer
base_params(hc) ==
    LET others == {key \in DOMAIN hc : ~StartsWith(key, sConfigurationDot)}
    IN  [key \in others |->
            IF key = sPort /\ hc[key].t = "str" /\ IsDigit(hc[key].s)
            THEN IntV(ParseDigits(hc[key].s))
            ELSE hc[key]]

extract_prefixed_config(cmap, pfx) ==
    LET hc == hive_config(cmap, pfx)
        base == base_params(hc)
        settings == configuration_params(hc)
    IN  [key \in DOMAIN base \cup {sConfiguration} |->
            IF key = sConfiguration THEN DictV(settings) ELSE base[key]]

\* The declared fields of HiveConfig
FieldNames ==
    {sHost, sPort, sDatabase, sUsername, sPassword, sAuth, sConfiguration,
     sTimeoutSeconds}

\* Field(...) : the fields with no default
RequiredFields == {sUsername}

\* A model that ignores undeclared keywords.
ExtraIgnored == FALSE

\* model_config = ConfigDict(extra="forbid")
ExtraForbidden == TRUE

DefaultPort == 10000
DefaultTimeoutSeconds == 30

\* The defaults of the other fields
FieldDefault(field) ==
    CASE field = sHost -> StrV(<<"1", "2", "7", ".", "0", ".", "0", ".", "1">>)
      [] field = sPort -> IntV(DefaultPort)
      [] field = sDatabase -> NoneV
      [] field = sPassword -> StrV(<<>>)
      [] field = sAuth -> NoneV
      [] field = sConfiguration -> DictV(EmptyMap)
      [] field = sTimeoutSeconds -> IntV(DefaultTimeoutSeconds)

\* A value that the declared type does not accept
Invalid == [t |-> "invalid"]

\* A string that reads as an integer: digits, with an optional sign
IsIntLiteral(s) ==
    \/ IsDigit(s)
    \/ Len(s) > 1 /\ s[1] \in {"-", "+"} /\ IsDigit(Slice(s, 1))

ParseInt(s) ==
    IF s[1] = "-" THEN 0 - ParseDigits(Slice(s, 1))
    ELSE IF s[1] = "+" THEN ParseDigits(Slice(s, 1))
    ELSE ParseDigits(s)

\* a field declared str
CoerceStr(v) == IF v.t = "str" THEN v ELSE Invalid

\* a field declared Optional[str]
CoerceOptionalStr(v) == IF v.t \in {"str", "none"} THEN v ELSE Invalid

\* a field declared int: an integer, a boolean, or a string that reads as one
CoerceInt(v) ==
    CASE v.t = "int" -> v
      [] v.t = "bool" -> IntV(IF v.b THEN 1 ELSE 0)
      [] v.t = "str" /\ IsIntLiteral(v.s) -> IntV(ParseInt(v.s))
      [] OTHER -> Invalid

\* a field declared Dict[str, Any]
CoerceDict(v) == IF v.t = "dict" THEN v ELSE Invalid

\* A username field that refuses the empty string.
CoerceUsernameNonEmpty(v) == IF v.t = "str" /\ Len(v.s) > 0 THEN v ELSE Invalid

\* username: str = Field(...)
CoerceUsername(v) == CoerceStr(v)

Coerce(field, v) ==
    CASE field = sHost -> CoerceStr(v)
      [] field = sPort -> CoerceInt(v)
      [] field = sDatabase -> CoerceOptionalStr(v)
      [] field = sUsername -> CoerceUsername(v)
      [] field = sPassword -> CoerceStr(v)
      [] field = sAuth -> CoerceOptionalStr(v)
      [] field = sConfiguration -> CoerceDict(v)
      [] field = sTimeoutSeconds -> CoerceInt(v)

\* What a failed construction raises; no record exists then.
ValidationError == [ok |-> FALSE]

\* The validation of the keywords against the declared fields: undeclared
\* keywords are refused, fields with no default must be given, every given
\* value must be accepted by its field's type, the others take their default.
ValidateModel(kw) ==
    LET given == DOMAIN kw
        value(field) ==
            IF field \in given THEN Coerce(field, kw[field]) ELSE FieldDefault(field)
    IN  IF ExtraForbidden /\ given \ FieldNames # {} THEN ValidationError
        ELSE IF RequiredFields \ given # {} THEN ValidationError
        ELSE IF \E field \in FieldNames : value(field) = Invalid THEN ValidationError
        ELSE [ok |-> TRUE,
              host |-> value(sHost),
              port |-> value(sPort),
              database |-> value(sDatabase),
              username |-> value(sUsername),
              password |-> value(sPassword),
              auth |-> value(sAuth),
              configuration |-> value(sConfiguration),
              timeout_seconds |-> value(sTimeoutSeconds)]

\* A constructor in which username has a default.
HiveConfigUsernameDefault(kw) ==
    ValidateModel([field \in DOMAIN kw \cup {sUsername} |->
                      IF field \in DOMAIN kw THEN kw[field] ELSE StrV(<<>>)])

\* HiveConfig(**kw): the record, or a validation error
HiveConfig(kw) == ValidateModel(kw)

\* HiveConfig.from_config_map
from_config_map(cmap, pfx) == HiveConfig(extract_prefixed_config(cmap, pfx))

-----------------------------------------------------------------------------
(* connector.py: the tabular result of a metadata query *)

\* A tabular result: its column labels in order, and its rows, each holding
\* one value per column.  Column labels are strings and differ from one
\* another.
Frame(columns, data) == [columns |-> columns, data |-> data]

\* result.empty: no row or no column
Empty(frame) == Len(frame.data) = 0 \/ Len(frame.columns) = 0

\* result[col].tolist() for the column at a position
ColumnValues(frame, i) == [r \in 1..Len(frame.data) |-> frame.data[r][i]]

\* [str(value) for value in values]
StrAll(values) == [r \in 1..Len(values) |-> PyStr(values[r])]

-----------------------------------------------------------------------------
(* connector.py: _extract_table_names *)

sTablename == <<"t", "a", "b", "l", "e", "n", "a", "m", "e">>
sTabName == <<"t", "a", "b", "_", "n", "a", "m", "e">>
sTableName == <<"t", "a", "b", "l", "e", "_", "n", "a", "m", "e">>
sName == <<"n", "a", "m", "e">>

\* A priority list that looks for "name" first.
NamePriorityNameFirst == <<sName, sTablename, sTabName, sTableName>>

\* for name in ("tablename", "tab_name", "table_name", "name")
NamePriority == <<sTablename, sTabName, sTableName, sName>>

\* column_map = {str(col).lower(): col for col in result.columns}: the keys
LoweredLabels(frame) == {Lower(frame.columns[i]) : i \in 1..Len(frame.columns)}

\* column_map[name]: a later column replaces an earlier one of the same key
column_map(frame, name) ==
    LET hits == {i \in 1..Len(frame.columns) : Lower(frame.columns[i]) = name}
    IN  CHOOSE i \in hits : \A j \in hits : j <= i

IsStr(v) == v.t = "str"

\* isinstance(value, str) and value.strip()
IsNonBlankStr(v) == v.t = "str" /\ Strip(v.s) # <<>>

\* value is not None and not isinstance(value, bool)
IsNotNoneNotBool(v) == v.t # "none" /\ v.t # "bool"

\* The third loop: the first column with a value that is neither None nor a
\* boolean gives those values as strings.
RECURSIVE ScanOthers(_, _)
ScanOthers(frame, i) ==
    IF i > Len(frame.columns) THEN <<>>
    ELSE LET values == ColumnValues(frame, i)
             found == StrAll(SelectSeq(values, IsNotNoneNotBool))
         IN  IF found # <<>> THEN found ELSE ScanOthers(frame, i + 1)

\* A second loop that returns at the first column with a string value, blank
\* or not.
ScanStringsFirstWins(frame, i) ==
    LET withStr == {c \in i..Len(frame.columns) :
                       \E r \in 1..Len(frame.data) : IsStr(frame.data[r][c])}
    IN  IF withStr = {} THEN ScanOthers(frame, 1)
        ELSE LET c == CHOOSE c \in withStr : \A d \in withStr : c <= d
             IN  StrAll(SelectSeq(ColumnValues(frame, c), IsNonBlankStr))

\* The second loop: the first column with a string value and a non-blank one
\* gives its non-blank strings.
RECURSIVE ScanStrings(_, _)
ScanStrings(frame, i) ==
    IF i > Len(frame.columns) THEN ScanOthers(frame, 1)
    ELSE LET values == ColumnValues(frame, i)
             found == StrAll(SelectSeq(values, IsNonBlankStr))
         IN  IF (\E r \in 1..Len(values) : IsStr(values[r])) /\ found # <<>>
             THEN found
             ELSE ScanStrings(frame, i + 1)

\* The first loop: the first name of the priority list that is a lowered
\* column label gives that column's values as strings.
RECURSIVE ScanPriority(_, _)
ScanPriority(frame, k) ==
    IF k > Len(NamePriority) THEN ScanStrings(frame, 1)
    ELSE IF NamePriority[k] \in LoweredLabels(frame)
         THEN StrAll(ColumnValues(frame, column_map(frame, NamePriority[k])))
         ELSE ScanPriority(frame, k + 1)

\* An extraction that returns one empty name for an empty result.
extract_table_names_blank(frame) ==
    IF Empty(frame) THEN <<<<>>>> ELSE ScanPriority(frame, 1)

extract_table_names(frame) ==
    IF Empty(frame) THEN <<>> ELSE ScanPriority(frame, 1)

-----------------------------------------------------------------------------
(* connector.py: get_schema *)

\* result.columns[n] if len(result.columns) > n else None
ColumnAt(frame, n) ==
    IF Len(frame.columns) > n THEN StrV(frame.columns[n + 1]) ELSE NoneV

\* 'if type_col' / 'if comment_col': a label that is None or empty is falsy
Truthy(label) == label.t = "str" /\ Len(label.s) > 0

\* A loop that skips a row whose name is None, blank or starts with "#" and
\* goes on with the next.
RECURSIVE SchemaRowsContinue(_, _)
SchemaRowsContinue(frame, i) ==
    IF i > Len(frame.data) THEN <<>>
    ELSE LET cell == frame.data[i][1]
             name == IF cell.t # "none" THEN Strip(PyStr(cell)) ELSE <<>>
         IN  IF name = <<>> \/ StartsWith(name, <<"#">>)
             THEN SchemaRowsContinue(frame, i + 1)
             ELSE <<[cid |-> i - 1,
                     name |-> name,
                     type |-> IF Truthy(ColumnAt(frame, 1))
                              THEN Strip(PyStr(frame.data[i][2])) ELSE <<>>,
                     comment |-> IF Truthy(ColumnAt(frame, 2))
                                 THEN StrV(Strip(PyStr(frame.data[i][3])))
                                 ELSE NoneV,
                     nullable |-> TRUE,
                     pk |-> FALSE,
                     default_value |-> NoneV]>>
                  \o SchemaRowsContinue(frame, i + 1)

\* A loop that reports a missing comment column as the empty string.
RECURSIVE SchemaRowsCommentEmpty(_, _)
SchemaRowsCommentEmpty(frame, i) ==
    IF i > Len(frame.data) THEN <<>>
    ELSE LET cell == frame.data[i][1]
             name == IF cell.t # "none" THEN Strip(PyStr(cell)) ELSE <<>>
         IN  IF name = <<>> \/ StartsWith(name, <<"#">>) THEN <<>>
             ELSE <<[cid |-> i - 1,
                     name |-> name,
                     type |-> IF Truthy(ColumnAt(frame, 1))
                              THEN Strip(PyStr(frame.data[i][2])) ELSE <<>>,
                     comment |-> IF Truthy(ColumnAt(frame, 2))
                                 THEN StrV(Strip(PyStr(frame.data[i][3])))
                                 ELSE StrV(<<>>),
                     nullable |-> TRUE,
                     pk |-> FALSE,
                     default_value |-> NoneV]>>
                  \o SchemaRowsCommentEmpty(frame, i + 1)

\* The loop over the rows from row i on (i counts from 1, cid from 0); it
\* breaks at the first row whose name is None, blank or starts with "#".
RECURSIVE SchemaRows(_, _)
SchemaRows(frame, i) ==
    IF i > Len(frame.data) THEN <<>>
    ELSE LET type_col == ColumnAt(frame, 1)
             comment_col == ColumnAt(frame, 2)
             cell == frame.data[i][1]
             name == IF cell.t # "none" THEN Strip(PyStr(cell)) ELSE <<>>
         IN  IF name = <<>> \/ StartsWith(name, <<"#">>) THEN <<>>
             ELSE <<[cid |-> i - 1,
                     name |-> name,
                     type |-> IF Truthy(type_col)
                              THEN Strip(PyStr(frame.data[i][2])) ELSE <<>>,
                     comment |-> IF Truthy(comment_col)
                                 THEN StrV(Strip(PyStr(frame.data[i][3])))
                                 ELSE NoneV,
                     nullable |-> TRUE,
                     pk |-> FALSE,
                     default_value |-> NoneV]>>
                  \o SchemaRows(frame, i + 1)

\* get_schema, given the table name and what DESCRIBE returns
get_schema(tname, frame) ==
    IF tname = <<>> THEN <<>>
    ELSE IF Empty(frame) THEN <<>>
    ELSE SchemaRows(frame, 1)

-----------------------------------------------------------------------------
(* connector.py: _normalize_configuration *)

sLowerTrue == <<"t", "r", "u", "e">>
sLowerFalse == <<"f", "a", "l", "s", "e">>

\* A normalization with no branch for booleans.
normalize_configuration_no_bool(conf) ==
    [key \in DOMAIN conf |->
        IF conf[key].t = "none" THEN StrV(<<>>) ELSE StrV(PyStr(conf[key]))]

normalize_configuration(conf) ==
    [key \in DOMAIN conf |->
        IF conf[key].t = "none" THEN StrV(<<>>)
        ELSE IF conf[key].t = "bool"
             THEN StrV(IF conf[key].b THEN sLowerTrue ELSE sLowerFalse)
             ELSE StrV(PyStr(conf[key]))]

-----------------------------------------------------------------------------
(* connector.py: _quote_identifier *)

\* The backtick character (written by name: the module's own syntax has no
\* literal for it)
Backtick == "BACKTICK"

\* identifier.replace(backtick, two backticks)
RECURSIVE ReplaceBackticks(_)
ReplaceBackticks(s) ==
    IF Len(s) = 0 THEN <<>>
    ELSE (IF s[1] = Backtick THEN <<Backtick, Backtick>> ELSE <<s[1]>>)
         \o ReplaceBackticks(Slice(s, 1))

\* A quoting that does not escape.
quote_identifier_unescaped(ident) == <<Backtick>> \o ident \o <<Backtick>>

quote_identifier(ident) ==
    LET escaped == ReplaceBackticks(ident)
    IN  <<Backtick>> \o escaped \o <<Backtick>>

-----------------------------------------------------------------------------
(* connector.py: the connection and the calls made on it *)

sShowDatabases ==
    <<"S", "H", "O", "W", " ", "D", "A", "T", "A", "B", "A", "S", "E", "S">>
sShowTablesIn ==
    <<"S", "H", "O", "W", " ", "T", "A", "B", "L", "E", "S", " ", "I", "N",
      " ">>
sShowTables == <<"S", "H", "O", "W", " ", "T", "A", "B", "L", "E", "S">>
sShowViewsIn ==
    <<"S", "H", "O", "W", " ", "V", "I", "E", "W", "S", " ", "I", "N", " ">>
sShowViews == <<"S", "H", "O", "W", " ", "V", "I", "E", "W", "S">>
sDescribe == <<"D", "E", "S", "C", "R", "I", "B", "E", " ">>
sShowCreateTable ==
    <<"S", "H", "O", "W", " ", "C", "R", "E", "A", "T", "E", " ", "T", "A",
      "B", "L", "E", " ">>
sUse == <<"U", "S", "E", " ">>
sDdlNotAvailableFor ==
    <<"-", "-", " ", "D", "D", "L", " ", "n", "o", "t", " ", "a", "v", "a",
      "i", "l", "a", "b", "l", "e", " ", "f", "o", "r", " ">>
sDefault == <<"d", "e", "f", "a", "u", "l", "t">>

\* a or b, for strings
Or(a, b) == IF a # <<>> THEN a ELSE b

\* What the driver does when a statement is executed or an engine is made:
\* it answers, or it raises.
Raises == [t |-> "raises"]

\* How a connect that goes on to make an engine may end
ConnectOutcomes == {"connected", "create_engine raises", "engine.connect raises"}

\* The engine fields of a connector: engine and connection are None or the
\* number of the create_engine call that made the engine (the first is 1);
\* engines counts the calls of create_engine and connects those of connect.
EngineFields(e, c, owns, n, k) ==
    [engine |-> e, connection |-> c, owns_engine |-> owns, engines |-> n,
     connects |-> k]

\* The try block of connect: what was open is closed, an engine is made and
\* a connection opened on it; when either raises, everything is reset and
\* the exception goes to the caller.  (The check of self.engine after the
\* block finds the engine just made.)
reconnect(self, outcome) ==
    CASE outcome = "connected" ->
            [self |-> EngineFields(IntV(self.engines + 1), IntV(self.engines + 1),
                                   TRUE, self.engines + 1, self.connects + 1),
             raised |-> FALSE]
      [] outcome = "create_engine raises" ->
            [self |-> EngineFields(NoneV, NoneV, FALSE, self.engines + 1,
                                   self.connects + 1),
             raised |-> TRUE]
      [] outcome = "engine.connect raises" ->
            [self |-> EngineFields(NoneV, NoneV, FALSE, self.engines + 1,
                                   self.connects + 1),
             raised |-> TRUE]

\* A connect that makes an engine whenever it is called.
connect_always(self, outcome) == reconnect(self, outcome)

\* connect: nothing to do when the connector has an engine of its own
connect(self, outcome) ==
    IF self.engine # NoneV /\ self.owns_engine
    THEN [self |-> [self EXCEPT !.connects = @ + 1], raised |-> FALSE]
    ELSE reconnect(self, outcome)

\* What a call on the connector comes to: the engine fields after it, how it
\* ended ("done" or "raised"), whether executing its query raised, the value
\* returned, the statements issued and the result of the listing query.
Call(self, end, queryRaised, value, stmts, res) ==
    [self |-> self, pc |-> end, raised |-> queryRaised, value |-> value,
     statements |-> stmts, result |-> res]

\* _sys_databases()
sys_databases == {}

\* get_databases(include_sys=...), SHOW DATABASES answered by response
get_databases(self, include_sys, outcome, response) ==
    LET c == connect(self, outcome)
        sql == sShowDatabases
    IN  IF c.raised THEN Call(c.self, "raised", FALSE, Unset, <<>>, Unset)
        ELSE IF response = Raises
        THEN Call(c.self, "raised", TRUE, Unset, <<sql>>, Unset)
        ELSE IF Empty(response)
        THEN Call(c.self, "done", FALSE, <<>>, <<sql>>, response)
        ELSE LET databases == StrAll(ColumnValues(response, 1))
                 sys_dbs == {Lower(name) : name \in sys_databases}
             IN  IF include_sys \/ sys_dbs = {}
                 THEN Call(c.self, "done", FALSE, databases, <<sql>>, response)
                 ELSE Call(c.self, "done", FALSE,
                           SelectSeq(databases, LAMBDA db : Lower(db) \notin sys_dbs),
                           <<sql>>, response)

\* A get_views that lets the exception of its query go to the caller.
get_views_propagating(self, self_database, db_arg, outcome, response) ==
    LET c == connect(self, outcome)
        database == Or(db_arg, self_database)
        sql == IF database # <<>>
               THEN sShowViewsIn \o quote_identifier(database) ELSE sShowViews
    IN  IF c.raised THEN Call(c.self, "raised", FALSE, Unset, <<>>, Unset)
        ELSE IF response = Raises
        THEN Call(c.self, "raised", TRUE, Unset, <<sql>>, Unset)
        ELSE Call(c.self, "done", FALSE, extract_table_names(response),
                  <<sql>>, response)

\* get_tables(database_name=...), SHOW TABLES answered by response
get_tables(self, self_database, db_arg, outcome, response) ==
    LET c == connect(self, outcome)
        database == Or(db_arg, self_database)
        sql == IF database # <<>>
               THEN sShowTablesIn \o quote_identifier(database) ELSE sShowTables
    IN  IF c.raised THEN Call(c.self, "raised", FALSE, Unset, <<>>, Unset)
        ELSE IF response = Raises
        THEN Call(c.self, "raised", TRUE, Unset, <<sql>>, Unset)
        ELSE Call(c.self, "done", FALSE, extract_table_names(response),
                  <<sql>>, response)

\* get_views(database_name=...), SHOW VIEWS answered by response: connect
\* is outside the try block, the query inside it.
get_views(self, self_database, db_arg, outcome, response) ==
    LET c == connect(self, outcome)
        database == Or(db_arg, self_database)
        sql == IF database # <<>>
               THEN sShowViewsIn \o quote_identifier(database) ELSE sShowViews
    IN  IF c.raised THEN Call(c.self, "raised", FALSE, Unset, <<>>, Unset)
        ELSE IF response = Raises
        THEN Call(c.self, "done", TRUE, <<>>, <<sql>>, Unset)
        ELSE Call(c.self, "done", FALSE, extract_table_names(response),
                  <<sql>>, response)

\* full_name(database_name=..., table_name=...)
full_name(self_database, db_arg, table) ==
    LET db == Or(db_arg, self_database)
    IN  IF db # <<>>
        THEN quote_identifier(db) \o <<".">> \o quote_identifier(table)
        ELSE quote_identifier(table)

\* A switch that takes the new database before the USE statement has run.
do_switch_context_assign_first(self_database, db_arg, response) ==
    IF db_arg # <<>>
    THEN [database_name |-> db_arg,
          pc |-> IF response = Raises THEN "raised" ELSE "done",
          raised |-> response = Raises,
          statements |-> <<sUse \o quote_identifier(db_arg)>>]
    ELSE [database_name |-> self_database, pc |-> "done", raised |-> FALSE,
          statements |-> <<>>]

\* do_switch_context(database_name=...), the USE statement answered by
\* response
do_switch_context(self_database, db_arg, response) ==
    IF db_arg # <<>>
    THEN LET sql == sUse \o quote_identifier(db_arg)
         IN  IF response = Raises
             THEN [database_name |-> self_database, pc |-> "raised",
                   raised |-> TRUE, statements |-> <<sql>>]
             ELSE [database_name |-> db_arg, pc |-> "done",
                   raised |-> FALSE, statements |-> <<sql>>]
    ELSE [database_name |-> self_database, pc |-> "done", raised |-> FALSE,
          statements |-> <<>>]

\* "\n".join(lines)
RECURSIVE JoinLines(_)
JoinLines(lines) ==
    IF Len(lines) = 0 THEN <<>>
    ELSE IF Len(lines) = 1 THEN lines[1]
    ELSE lines[1] \o <<"\n">> \o JoinLines(Tail(lines))

\* _show_create(full_name), SHOW CREATE TABLE answered by the frame response
show_create(full, response) ==
    IF Empty(response) THEN sDdlNotAvailableFor \o full
    ELSE JoinLines(StrAll(ColumnValues(response, 1)))

\* self.identifier(database_name=..., table_name=...) of the base class,
\* kept as the pair it is made from
Identifier(database, table) ==
    [t |-> "identifier", database_name |-> database, table_name |-> table]

\* What the loop of a DDL call comes to: whether a SHOW CREATE TABLE raised,
\* the entries collected and the statements issued.
Loop(loopRaised, collected, stmts) ==
    [raised |-> loopRaised, entries |-> collected, statements |-> stmts]

\* The loop of get_tables_with_ddl / get_views_with_ddl over the listed names
\* from the k-th on; ddl[k] answers the SHOW CREATE TABLE of the k-th name.
\* filter_tables holds the full names to keep (none: keep all; the loop over
\* the views has no filter).
RECURSIVE DdlEntries(_, _, _, _, _, _, _)
DdlEntries(listed, k, self_database, database, filter_tables, table_type, ddl) ==
    IF k > Len(listed) THEN Loop(FALSE, <<>>, <<>>)
    ELSE LET full == full_name(self_database, database, listed[k])
             sql == sShowCreateTable \o full
             rest == DdlEntries(listed, k + 1, self_database, database,
                                filter_tables, table_type, ddl)
         IN  IF filter_tables # {} /\ full \notin filter_tables THEN rest
             ELSE IF ddl[k] = Raises THEN Loop(TRUE, <<>>, <<sql>>)
             ELSE Loop(rest.raised,
                       IF rest.raised THEN <<>>
                       ELSE <<[identifier |-> Identifier(database, listed[k]),
                               catalog_name |-> <<>>,
                               schema_name |-> <<>>,
                               database_name |-> database,
                               table_name |-> listed[k],
                               table_type |-> table_type,
                               definition |-> show_create(full, ddl[k])]>>
                            \o rest.entries,
                       <<sql>> \o rest.statements)

\* What a DDL call comes to: as for a call, with the names its listing
\* returned; raised tells whether the listing query raised.
DdlCall(self, end, listingRaised, listed, collected, stmts, res) ==
    [self |-> self, pc |-> end, raised |-> listingRaised, names |-> listed,
     entries |-> collected, statements |-> stmts, result |-> res]

\* get_tables_with_ddl(database_name=..., tables=...): filter_tables is what
\* _reset_filter_tables makes of the tables argument.
get_tables_with_ddl(self, self_database, db_arg, filter_tables, outcome, response, ddl) ==
    LET c == connect(self, outcome)
        database == Or(db_arg, self_database)
        listing == get_tables(c.self, self_database, database, outcome, response)
        loop == DdlEntries(listing.value, 1, self_database, database,
                           filter_tables, "table", ddl)
    IN  IF c.raised
        THEN DdlCall(c.self, "raised", FALSE, Unset, Unset, <<>>, Unset)
        ELSE IF listing.pc = "raised"
        THEN DdlCall(listing.self, "raised", listing.raised, Unset, Unset,
                     listing.statements, Unset)
        ELSE IF loop.raised
        THEN DdlCall(listing.self, "raised", FALSE, listing.value, Unset,
                     listing.statements \o loop.statements, listing.result)
        ELSE DdlCall(listing.self, "done", FALSE, listing.value, loop.entries,
                     listing.statements \o loop.statements, listing.result)

\* get_views_with_ddl(database_name=...)
get_views_with_ddl(self, self_database, db_arg, outcome, response, ddl) ==
    LET c == connect(self, outcome)
        database == Or(db_arg, self_database)
        listing == get_views(c.self, self_database, database, outcome, response)
        loop == DdlEntries(listing.value, 1, self_database, database,
                           {}, "view", ddl)
    IN  IF c.raised
        THEN DdlCall(c.self, "raised", FALSE, Unset, Unset, <<>>, Unset)
        ELSE IF listing.pc = "raised"
        THEN DdlCall(listing.self, "raised", listing.raised, Unset, Unset,
                     listing.statements, Unset)
        ELSE IF loop.raised
        THEN DdlCall(listing.self, "raised", listing.raised, listing.value, Unset,
                     listing.statements \o loop.statements, listing.result)
        ELSE DdlCall(listing.self, "done", listing.raised, listing.value,
                     loop.entries, listing.statements \o loop.statements,
                     listing.result)

\* get_schema(database_name=..., table_name=...), DESCRIBE answered by
\* response: with no table name, nothing is connected or asked.
get_schema_call(self, self_database, db_arg, tname, outcome, response) ==
    LET c == connect(self, outcome)
        database == Or(db_arg, self_database)
        sql == sDescribe \o full_name(self_database, database, tname)
    IN  IF tname = <<>> THEN Call(self, "done", FALSE, <<>>, <<>>, Unset)
        ELSE IF c.raised THEN Call(c.self, "raised", FALSE, Unset, <<>>, Unset)
        ELSE IF response = Raises
        THEN Call(c.self, "raised", TRUE, Unset, <<sql>>, Unset)
        ELSE Call(c.self, "done", FALSE, get_schema(tname, response), <<sql>>,
                  response)

-----------------------------------------------------------------------------
(* The configuration inputs *)

\* How many entries a carrier map written key by key may hold
MaxEntries == 3

Prefixes == {<<"p", ".">>, <<>>}

sBogus == <<"b", "o", "g", "u", "s">>
sHue == <<"h", "u", "e">>
sConfigurationA == sConfigurationDot \o <<"a">>

\* The keys of a carrier map with the prefix cut off; <<>> is the key that
\* equals the prefix.
LocalKeys == {sUsername, sPort, sHost, sBogus, <<>>, sConfigurationA, sConfiguration}

CarrierKeys == {p \o l : p \in Prefixes, l \in LocalKeys}

\* The values tried for a key, by the local key it ends in
ValuesFor(l) ==
    CASE l = sUsername -> {StrV(sHue), StrV(<<>>), NoneV}
      [] l = sPort -> {StrV(<<"8", "0">>), IntV(80), StrV(<<"x">>)}
      [] l = sConfigurationA -> {StrV(<<"1">>), BoolV(TRUE)}
      [] OTHER -> {StrV(<<"x">>)}

CarrierValues(key) ==
    UNION {ValuesFor(l) : l \in {m \in LocalKeys : \E p \in Prefixes : key = p \o m}}

\* The settings of the records that are flattened
SettingsMaps ==
    {EmptyMap,
     [k \in {<<"a">>} |-> StrV(<<"1">>)],
     [k \in {<<"a">>, sConfigurationDot \o <<"b">>} |->
        IF k = <<"a">> THEN IntV(1) ELSE NoneV],
     [k \in {<<>>} |-> BoolV(TRUE)]}

\* The configuration records that are flattened
Records ==
    [ok : {TRUE},
     host : {StrV(<<"h">>)},
     port : {IntV(0), IntV(10009)},
     database : {NoneV, StrV(<<"d">>)},
     username : {StrV(sHue), StrV(<<>>)},
     password : {StrV(<<>>), StrV(<<"p", "w">>)},
     auth : {NoneV, StrV(<<"L", "D", "A", "P">>)},
     configuration : {DictV(m) : m \in SettingsMaps},
     timeout_seconds : {IntV(60)}]

\* The base fields a flattened record is written under
BaseFields == FieldNames \ {sConfiguration}

FieldOf(R, field) ==
    CASE field = sHost -> R.host
      [] field = sPort -> R.port
      [] field = sDatabase -> R.database
      [] field = sUsername -> R.username
      [] field = sPassword -> R.password
      [] field = sAuth -> R.auth
      [] field = sTimeoutSeconds -> R.timeout_seconds

\* The carrier map of record R under prefix P: base fields as P+<field>,
\* settings as P+"configuration."+<key>, the port as a digit string or as is.
FlattenRecord(R, P, portAsString) ==
    LET settings == R.configuration.d
        baseKeys == {P \o field : field \in BaseFields}
        settingKeys == {P \o sConfigurationDot \o k : k \in DOMAIN settings}
    IN  [key \in baseKeys \cup settingKeys |->
            IF key \in baseKeys
            THEN LET field == Slice(key, Len(P))
                 IN  IF field = sPort /\ portAsString
                     THEN StrV(IntStr(R.port.n))
                     ELSE FieldOf(R, field)
            ELSE settings[Slice(key, Len(P) + Len(sConfigurationDot))]]

\* The keyword sets of a direct construction
DirectFields == {sUsername, sPort, sBogus}

DirectKwargs ==
    UNION {{kw \in [S -> UNION {ValuesFor(l) : l \in DirectFields}] :
                \A field \in S : kw[field] \in ValuesFor(field)} :
           S \in SUBSET DirectFields}

SessionIdle ==
    /\ engine = Unset /\ connection = Unset /\ owns_engine = Unset
    /\ engines = Unset /\ connects = Unset /\ database_name = Unset
    /\ database_arg = Unset /\ statements = Unset /\ entries = Unset
    /\ calls = Unset

ConnectorIdle ==
    /\ result = Unset /\ raised = FALSE /\ names = Unset
    /\ table_name = Unset /\ rows = Unset
    /\ SessionIdle

SettingsIdle == configuration = Unset /\ normalized = Unset

QuoteIdle == identifier = Unset /\ quoted = Unset

ConfigIdle ==
    /\ carrier_map = Unset /\ prefix = Unset /\ kwargs = Unset
    /\ origin = Unset /\ config = Unset

-----------------------------------------------------------------------------
(* Building a configuration record *)

InitConfig ==
    /\ pc = "input"
    /\ op = ""
    /\ carrier_map = EmptyMap
    /\ prefix \in Prefixes
    /\ kwargs = Unset
    /\ origin = Unset
    /\ config = Unset
    /\ ConnectorIdle /\ SettingsIdle /\ QuoteIdle

\* The configuration system writes one more entry into the carrier map.
PutEntry ==
    /\ pc = "input"
    /\ origin = Unset
    /\ Cardinality(DOMAIN carrier_map) < MaxEntries
    /\ \E key \in CarrierKeys \ DOMAIN carrier_map :
         \E value \in CarrierValues(key) :
            carrier_map' =
                [k \in DOMAIN carrier_map \cup {key} |->
                    IF k = key THEN value ELSE carrier_map[k]]
    /\ UNCHANGED <<pc, op, prefix, kwargs, origin, config>>
    /\ UNCHANGED <<connectorVars, settingsVars, quoteVars>>

\* The configuration system writes a whole record under the prefix.
Flatten ==
    /\ pc = "input"
    /\ origin = Unset
    /\ carrier_map = EmptyMap
    /\ \E R \in Records, portAsString \in BOOLEAN :
         /\ carrier_map' = FlattenRecord(R, prefix, portAsString)
         /\ origin' = R
    /\ UNCHANGED <<pc, op, prefix, kwargs, config>>
    /\ UNCHANGED <<connectorVars, settingsVars, quoteVars>>

\* HiveConfig.from_config_map(carrier_map, prefix)
FromConfigMap ==
    /\ pc = "input"
    /\ kwargs' = extract_prefixed_config(carrier_map, prefix)
    /\ config' = from_config_map(carrier_map, prefix)
    /\ op' = "from_config_map"
    /\ pc' = "done"
    /\ UNCHANGED <<carrier_map, prefix, origin>>
    /\ UNCHANGED <<connectorVars, settingsVars, quoteVars>>

\* HiveConfig(**kw)
Construct ==
    /\ pc = "input"
    /\ carrier_map = EmptyMap
    /\ \E kw \in DirectKwargs :
         /\ kwargs' = kw
         /\ config' = HiveConfig(kw)
    /\ op' = "HiveConfig"
    /\ pc' = "done"
    /\ UNCHANGED <<carrier_map, prefix, origin>>
    /\ UNCHANGED <<connectorVars, settingsVars, quoteVars>>

NextConfig == PutEntry \/ Flatten \/ FromConfigMap \/ Construct

SpecConfig == InitConfig /\ [][NextConfig]_vars

-----------------------------------------------------------------------------
(* The settings normalization alone *)

\* How many keys a settings mapping may have
MaxSettings == 3

SettingKeys == <<<<"a">>, <<"b">>, <<"c">>, <<"d">>, <<"e">>>>

SettingValues ==
    {NoneV, BoolV(TRUE), BoolV(FALSE), IntV(100), IntV(1), IntV(0),
     StrV(<<"x">>), StrV(<<>>)}

\* The settings mappings: any of the first keys, each with any value
SettingsInputs ==
    UNION {[S -> SettingValues] :
           S \in SUBSET {SettingKeys[i] : i \in 1..MaxSettings}}

InitSettings ==
    /\ pc = "input"
    /\ op = ""
    /\ configuration \in SettingsInputs
    /\ normalized = Unset
    /\ ConfigIdle /\ ConnectorIdle /\ QuoteIdle

\* HiveConnector._normalize_configuration(configuration)
NormalizeConfiguration ==
    /\ pc = "input"
    /\ normalized' = normalize_configuration(configuration)
    /\ op' = "_normalize_configuration"
    /\ pc' = "done"
    /\ UNCHANGED configuration
    /\ UNCHANGED <<configVars, connectorVars, quoteVars>>

NextSettings == NormalizeConfiguration

SpecSettings == InitSettings /\ [][NextSettings]_vars

-----------------------------------------------------------------------------
(* The identifier quoting alone *)

\* How long an identifier may be
MaxIdentLen == 3

IdentChars == {"a", "b", Backtick}

Identifiers == UNION {[1..n -> IdentChars] : n \in 0..MaxIdentLen}

\* Two identifiers are quoted, one call after the other.
InitQuote ==
    /\ pc = "input"
    /\ op = ""
    /\ identifier \in Identifiers \X Identifiers
    /\ quoted = <<>>
    /\ ConfigIdle /\ ConnectorIdle /\ SettingsIdle

\* HiveConnector._quote_identifier(identifier), for the next identifier
QuoteIdentifier ==
    /\ Len(quoted) < Len(identifier)
    /\ quoted' = Append(quoted, quote_identifier(identifier[Len(quoted) + 1]))
    /\ op' = "_quote_identifier"
    /\ pc' = IF Len(quoted') = Len(identifier) THEN "done" ELSE "input"
    /\ UNCHANGED identifier
    /\ UNCHANGED <<configVars, connectorVars, settingsVars>>

NextQuote == QuoteIdentifier

SpecQuote == InitQuote /\ [][NextQuote]_vars

-----------------------------------------------------------------------------
(* Properties of the configuration record *)

\* C1: a carrier map flattened from a configuration record under the prefix,
\* with the port as a digit string or as an integer, is extracted back to a
\* record equal to the original in every field.
RoundTrip ==
    pc = "done" /\ op = "from_config_map" /\ origin # Unset => config = origin

\* A record with settings and a digit-string port was flattened under a
\* non-empty prefix and extracted back.
RoundTripWitness ==
    /\ pc = "done" /\ op = "from_config_map" /\ origin # Unset
    /\ prefix # <<>>
    /\ carrier_map[prefix \o sPort] = StrV(<<"1", "0", "0", "0", "9">>)
    /\ Cardinality(DOMAIN origin.configuration.d) = 2
    /\ config = origin
    /\ config.port = IntV(10009)

\* C2: a construction with no username (direct, or from a carrier map with
\* no key prefix+"username") ends in a validation error.
MissingUsernameFails ==
    pc = "done" =>
        /\ op = "from_config_map" /\ (prefix \o sUsername) \notin DOMAIN carrier_map
            => config = ValidationError
        /\ op = "HiveConfig" /\ sUsername \notin DOMAIN kwargs
            => config = ValidationError

\* A carrier map whose only matching key is a valid port was refused.
MissingUsernameWitness ==
    /\ pc = "done" /\ op = "from_config_map"
    /\ (prefix \o sUsername) \notin DOMAIN carrier_map
    /\ DOMAIN kwargs = {sPort, sConfiguration}
    /\ kwargs[sPort] = IntV(80)
    /\ config = ValidationError

WithUsername(kw, name) ==
    [field \in DOMAIN kw \cup {sUsername} |->
        IF field = sUsername THEN StrV(name) ELSE kw[field]]

UnknownLocalKeys(cmap, pfx) ==
    {K \in {Slice(key, Len(pfx)) : key \in {k \in DOMAIN cmap : StartsWith(k, pfx)}} :
        K \notin FieldNames /\ ~StartsWith(K, sConfigurationDot)}

\* C4: a carrier map with a key prefix+K, K no declared field and not under
\* "configuration.", is refused; so is a direct construction with an
\* undeclared keyword.
UnknownFieldRejected ==
    pc = "done" =>
        /\ op = "from_config_map" /\ UnknownLocalKeys(carrier_map, prefix) # {}
            => config = ValidationError
        /\ op = "HiveConfig" /\ DOMAIN kwargs \ FieldNames # {}
            => config = ValidationError

\* A carrier map with a valid username and a bogus key was refused.
UnknownFieldWitness ==
    /\ pc = "done" /\ op = "from_config_map"
    /\ DOMAIN kwargs = {sUsername, sBogus, sConfiguration}
    /\ kwargs[sUsername] = StrV(sHue)
    /\ config = ValidationError

\* The carrier map without one key
Without(cmap, key) == [k \in DOMAIN cmap \ {key} |-> cmap[k]]

\* C5 as claimed: a key equal to the prefix is ignored.
EmptyLocalKeyIgnored ==
    pc = "done" /\ op = "from_config_map" /\ prefix \in DOMAIN carrier_map =>
        config = from_config_map(Without(carrier_map, prefix), prefix)

\* C5 as amended: a key equal to the prefix is an undeclared field (the empty
\* local key), so the construction fails.
EmptyLocalKeyRejected ==
    pc = "done" /\ op = "from_config_map" /\ prefix \in DOMAIN carrier_map =>
        config = ValidationError

\* A carrier map that is valid without its key equal to the prefix was
\* refused with it.
EmptyLocalKeyWitness ==
    /\ pc = "done" /\ op = "from_config_map" /\ prefix \in DOMAIN carrier_map
    /\ from_config_map(Without(carrier_map, prefix), prefix) # ValidationError
    /\ config = ValidationError

-----------------------------------------------------------------------------
(* The tabular results *)

\* How many rows and cells a listing result may have; it has up to three
\* columns, as the results of SHOW TABLES and SHOW VIEWS.
MaxRows == 2
MaxCells == 4

sDatabaseLabel == sDatabase
sTableNameLabel == <<"t", "a", "b", "l", "e", "N", "a", "m", "e">>
sViewNameLabel == <<"v", "i", "e", "w", "N", "a", "m", "e">>
sIsTemporaryLabel == <<"i", "s", "T", "e", "m", "p", "o", "r", "a", "r", "y">>

ColumnLabels ==
    {sDatabaseLabel, sTableNameLabel, sViewNameLabel, sIsTemporaryLabel, sName, sTabName}

sTableA == <<"t", "a", "b", "l", "e", "_", "a">>
sViewA == <<"v", "i", "e", "w", "_", "a">>

CellValues ==
    {StrV(sDefault), StrV(sTableA), StrV(sViewA), StrV(<<" ">>), NoneV, BoolV(FALSE), IntV(7)}

\* The sequences of n labels that differ from one another
LabelSeqs(n) ==
    {cols \in [1..n -> ColumnLabels] : \A i, j \in 1..n : i # j => cols[i] # cols[j]}

\* The shapes (columns, rows) of the results of SHOW TABLES / SHOW VIEWS
ListingShapes ==
    {shape \in (0..3) \X (0..MaxRows) : shape[1] * shape[2] <= MaxCells}

\* The rows of a result of that shape
ListingData(shape) == [1..shape[2] -> [1..shape[1] -> CellValues]]

\* How many rows a DESCRIBE result may have
MaxSchemaRows == 4

sColName == <<"c", "o", "l", "_", "n", "a", "m", "e">>
sDataType == <<"d", "a", "t", "a", "_", "t", "y", "p", "e">>
sComment == <<"c", "o", "m", "m", "e", "n", "t">>

DescribeLabels == <<sColName, sDataType, sComment>>

sPartitionInformation ==
    <<"#", " ", "P", "a", "r", "t", "i", "t", "i", "o", "n", " ",
      "I", "n", "f", "o", "r", "m", "a", "t", "i", "o", "n">>

\* The cells of a DESCRIBE row, by column
DescribeCells(i) ==
    CASE i = 1 -> {StrV(<<"i", "d">>), StrV(<<" ", "d", "t", " ">>),
                   StrV(sPartitionInformation), StrV(<<" ">>), NoneV}
      [] i = 2 -> {StrV(<<"i", "n", "t">>), StrV(<<>>)}
      [] i = 3 -> {StrV(<<>>)}

\* The rows of a DESCRIBE result of n columns
DescribeRows(n) ==
    {row \in [1..n -> UNION {DescribeCells(i) : i \in 1..n}] :
        \A i \in 1..n : row[i] \in DescribeCells(i)}

\* The shapes (columns, rows) of the results of DESCRIBE
DescribeShapes == (1..3) \X (0..MaxSchemaRows)

\* The rows of a result of that shape
DescribeData(shape) == [1..shape[2] -> DescribeRows(shape[1])]

TableNames == {<<>>, sTableA}

\* The calls of get_schema: a table name and what DESCRIBE returns; the empty
\* table name is tried with the results of at most one row.
DescribeCalls(shape) == {tname \in TableNames : tname = <<>> => shape[2] <= 1}

-----------------------------------------------------------------------------
(* The name extraction alone *)

InitNames ==
    /\ pc = "input"
    /\ op = ""
    /\ \E shape \in ListingShapes :
         \E cols \in LabelSeqs(shape[1]), data \in ListingData(shape) :
            result = Frame(cols, data)
    /\ raised = FALSE
    /\ names = Unset
    /\ table_name = Unset
    /\ rows = Unset
    /\ SessionIdle
    /\ ConfigIdle /\ SettingsIdle /\ QuoteIdle

\* HiveConnector._extract_table_names(result)
ExtractTableNames ==
    /\ pc = "input"
    /\ names' = extract_table_names(result)
    /\ op' = "_extract_table_names"
    /\ pc' = "done"
    /\ UNCHANGED <<result, raised, table_name, rows, sessionVars>>
    /\ UNCHANGED <<configVars, settingsVars, quoteVars>>

NextNames == ExtractTableNames

SpecNames == InitNames /\ [][NextNames]_vars

-----------------------------------------------------------------------------
(* The schema description alone *)

InitSchema ==
    /\ pc = "input"
    /\ op = ""
    /\ \E shape \in DescribeShapes :
         \E tname \in DescribeCalls(shape), data \in DescribeData(shape) :
            /\ table_name = tname
            /\ result = Frame(SubSeq(DescribeLabels, 1, shape[1]), data)
    /\ raised = FALSE
    /\ names = Unset
    /\ rows = Unset
    /\ SessionIdle
    /\ ConfigIdle /\ SettingsIdle /\ QuoteIdle

\* get_schema(table_name=...), DESCRIBE returning result
GetSchema ==
    /\ pc = "input"
    /\ rows' = get_schema(table_name, result)
    /\ op' = "get_schema"
    /\ pc' = "done"
    /\ UNCHANGED <<result, raised, names, table_name, sessionVars>>
    /\ UNCHANGED <<configVars, settingsVars, quoteVars>>

NextSchema == GetSchema

SpecSchema == InitSchema /\ [][NextSchema]_vars

-----------------------------------------------------------------------------
(* The connector's metadata calls, one call on a new connector *)

sTest == <<"t", "e", "s", "t">>

\* The keywords the connector is built from: a username, and a database or
\* none
ConnectorKwargs(database) ==
    [field \in {sUsername, sDatabase} |->
        IF field = sUsername THEN StrV(sHue) ELSE database]

\* The database_name arguments of the calls
DatabaseArgs == {<<>>, sTest}

\* The database_name arguments a listing is called with: a database is named
\* with the results of no row.
ListingCalls(shape) == {arg \in DatabaseArgs : arg # <<>> => shape[2] = 0}

\* The answers to SHOW CREATE TABLE: an exception, no row, two lines
sCreateTable == <<"C", "R", "E", "A", "T", "E">>
sCreatetabStmt == <<"c", "r", "e", "a", "t", "e", "t", "a", "b", "_", "s", "t", "m", "t">>
DdlResponses ==
    {Raises,
     Frame(<<sCreatetabStmt>>, <<>>),
     Frame(<<sCreatetabStmt>>, <<<<StrV(sCreateTable)>>, <<StrV(<<")">>)>>>>)}

\* The filters _reset_filter_tables gives: none, or the one table table_a of
\* the connector's database
FilterTables(self_database) == {{}, {full_name(self_database, <<>>, sTableA)}}

\* HiveConnector(HiveConfig(**kw)): the record is kept, the database is the
\* record's or "default", and there is no engine yet.
NewConnector(kw) ==
    /\ kwargs = kw
    /\ config = HiveConfig(kw)
    /\ database_name =
          Or(IF config.database.t = "str" THEN config.database.s ELSE <<>>, sDefault)
    /\ engine = NoneV /\ connection = NoneV /\ owns_engine = FALSE
    /\ engines = 0 /\ connects = 0
    /\ database_arg = Unset /\ statements = <<>> /\ entries = Unset /\ calls = 0
    /\ result = Unset /\ raised = FALSE /\ names = Unset
    /\ table_name = Unset /\ rows = Unset
    /\ carrier_map = Unset /\ prefix = Unset /\ origin = Unset
    /\ SettingsIdle /\ QuoteIdle

Init ==
    /\ pc = "input"
    /\ op = ""
    /\ NewConnector(ConnectorKwargs(StrV(sDefault)))

\* The connector's engine fields
SelfFields == EngineFields(engine, connection, owns_engine, engines, connects)

\* Whether a connect ending that way lets the call go on to its query
Connects(outcome) == ~connect(SelfFields, outcome).raised

\* A call on the connector ends: its effects on the connector and what is
\* known of it afterwards
Returns(call, name, arg) ==
    /\ engine' = call.self.engine
    /\ connection' = call.self.connection
    /\ owns_engine' = call.self.owns_engine
    /\ engines' = call.self.engines
    /\ connects' = call.self.connects
    /\ pc' = call.pc
    /\ raised' = call.raised
    /\ statements' = call.statements
    /\ result' = call.result
    /\ op' = name
    /\ database_arg' = arg
    /\ calls' = calls + 1
    /\ UNCHANGED <<configVars, settingsVars, quoteVars>>

\* A listing call ends
ListingReturns(call, name, arg) ==
    /\ Returns(call, name, arg)
    /\ names' = call.value
    /\ UNCHANGED <<database_name, table_name, rows, entries>>

\* get_tables(database_name=arg): the connection fails, or SHOW TABLES raises,
\* or it returns a result and the names are extracted.
GetTables ==
    /\ pc = "input"
    /\ \E outcome \in ConnectOutcomes :
          IF ~Connects(outcome)
          THEN \E arg \in DatabaseArgs :
                  ListingReturns(get_tables(SelfFields, database_name, arg,
                                            outcome, Raises),
                                 "get_tables", arg)
          ELSE \/ \E arg \in DatabaseArgs :
                     ListingReturns(get_tables(SelfFields, database_name, arg,
                                               outcome, Raises),
                                    "get_tables", arg)
               \/ \E shape \in ListingShapes :
                     \E arg \in ListingCalls(shape), cols \in LabelSeqs(shape[1]),
                        data \in ListingData(shape) :
                        ListingReturns(get_tables(SelfFields, database_name, arg,
                                                  outcome, Frame(cols, data)),
                                       "get_tables", arg)

\* get_views(database_name=arg): the connection fails, or SHOW VIEWS raises
\* and the empty list is returned, or it returns a result and the names are
\* extracted.
GetViews ==
    /\ pc = "input"
    /\ \E outcome \in ConnectOutcomes :
          IF ~Connects(outcome)
          THEN \E arg \in DatabaseArgs :
                  ListingReturns(get_views(SelfFields, database_name, arg,
                                           outcome, Raises),
                                 "get_views", arg)
          ELSE \/ \E arg \in DatabaseArgs :
                     ListingReturns(get_views(SelfFields, database_name, arg,
                                              outcome, Raises),
                                    "get_views", arg)
               \/ \E shape \in ListingShapes :
                     \E arg \in ListingCalls(shape), cols \in LabelSeqs(shape[1]),
                        data \in ListingData(shape) :
                        ListingReturns(get_views(SelfFields, database_name, arg,
                                                 outcome, Frame(cols, data)),
                                       "get_views", arg)

\* The answers to the DESCRIBE of a call on the connector: an exception, or a
\* result of up to MaxRows rows
DescribeAnswers ==
    {Raises} \cup
    UNION {{Frame(SubSeq(DescribeLabels, 1, shape[1]), data) :
               data \in DescribeData(shape)} :
           shape \in {sh \in DescribeShapes : sh[2] <= MaxRows}}

\* get_schema(database_name=arg, table_name=tname) on the connector
GetSchemaCall ==
    /\ pc = "input"
    /\ \E outcome \in ConnectOutcomes, arg \in DatabaseArgs, tname \in TableNames :
          \E response \in IF Connects(outcome) /\ tname # <<>>
                          THEN DescribeAnswers ELSE {Raises} :
             LET call == get_schema_call(SelfFields, database_name, arg, tname,
                                         outcome, response)
             IN  /\ Returns(call, "get_schema", arg)
                 /\ rows' = call.value
                 /\ table_name' = tname
    /\ UNCHANGED <<database_name, names, entries>>

\* The answers to the listing of a DDL call: an exception, or a result of
\* the one column tab_name
DdlListings ==
    {Raises} \cup
    UNION {{Frame(<<sTabName>>, data) : data \in ListingData(shape)} :
           shape \in {sh \in ListingShapes : sh[1] = 1}}

\* How many names the listing of a DDL call gives, one SHOW CREATE TABLE
\* being answered for each
Listed(response) ==
    IF response = Raises THEN 0 ELSE Len(extract_table_names(response))

\* A DDL call ends
DdlReturns(call, name, arg) ==
    /\ Returns(call, name, arg)
    /\ names' = call.names
    /\ entries' = call.entries
    /\ UNCHANGED <<database_name, table_name, rows>>

\* get_tables_with_ddl(database_name=arg, tables=...)
GetTablesWithDdl ==
    /\ pc = "input"
    /\ \E outcome \in ConnectOutcomes, arg \in DatabaseArgs :
          IF ~Connects(outcome)
          THEN DdlReturns(get_tables_with_ddl(SelfFields, database_name, arg, {},
                                              outcome, Raises, <<>>),
                          "get_tables_with_ddl", arg)
          ELSE \E response \in DdlListings :
                  \E filter_tables \in FilterTables(database_name),
                     ddl \in [1..Listed(response) -> DdlResponses] :
                     DdlReturns(get_tables_with_ddl(SelfFields, database_name, arg,
                                                    filter_tables, outcome,
                                                    response, ddl),
                                "get_tables_with_ddl", arg)

\* get_views_with_ddl(database_name=arg)
GetViewsWithDdl ==
    /\ pc = "input"
    /\ \E outcome \in ConnectOutcomes, arg \in DatabaseArgs :
          IF ~Connects(outcome)
          THEN DdlReturns(get_views_with_ddl(SelfFields, database_name, arg,
                                             outcome, Raises, <<>>),
                          "get_views_with_ddl", arg)
          ELSE \E response \in DdlListings :
                  \E ddl \in [1..Listed(response) -> DdlResponses] :
                     DdlReturns(get_views_with_ddl(SelfFields, database_name, arg,
                                                   outcome, response, ddl),
                                "get_views_with_ddl", arg)

Next ==
    \/ GetTables
    \/ GetViews
    \/ GetSchemaCall
    \/ GetTablesWithDdl
    \/ GetViewsWithDdl

Spec == Init /\ [][Next]_vars

-----------------------------------------------------------------------------
(* Calls made one after another on a connector *)

\* How many calls are made on the connector
MaxCalls == 3

sDatabaseName ==
    <<"d", "a", "t", "a", "b", "a", "s", "e", "_", "n", "a", "m", "e">>

\* The answers to SHOW DATABASES: an exception, or a result of one column
\* with up to MaxRows rows
DatabasesAnswers ==
    {Raises} \cup
    UNION {{Frame(<<sDatabaseName>>, data) :
               data \in [1..n -> [1..1 -> {StrV(sDefault), StrV(sTest)}]]} :
           n \in 0..MaxRows}

\* The databases a context switch is asked for
SwitchArgs == {<<>>, sTest, <<"a", Backtick>>}

InitSession ==
    /\ pc = "input"
    /\ op = ""
    /\ \E database \in {NoneV, StrV(sTest)} : NewConnector(ConnectorKwargs(database))

\* connect()
Connect ==
    /\ calls < MaxCalls
    /\ \E outcome \in ConnectOutcomes :
          LET c == connect(SelfFields, outcome)
          IN  Returns(Call(c.self, IF c.raised THEN "raised" ELSE "done", FALSE,
                           Unset, <<>>, Unset),
                      "connect", Unset)
    /\ UNCHANGED <<database_name, names, table_name, rows, entries>>

\* get_databases(include_sys=...)
GetDatabases ==
    /\ calls < MaxCalls
    /\ \E outcome \in ConnectOutcomes, include_sys \in BOOLEAN,
          response \in DatabasesAnswers :
          LET call == get_databases(SelfFields, include_sys, outcome, response)
          IN  /\ Returns(call, "get_databases", Unset)
              /\ names' = call.value
    /\ UNCHANGED <<database_name, table_name, rows, entries>>

\* do_switch_context(database_name=arg), the USE statement succeeding or
\* raising
DoSwitchContext ==
    /\ calls < MaxCalls
    /\ \E arg \in SwitchArgs, response \in {Raises, Frame(<<>>, <<>>)} :
          LET switch == do_switch_context(database_name, arg, response)
          IN  /\ database_name' = switch.database_name
              /\ pc' = switch.pc
              /\ raised' = switch.raised
              /\ statements' = switch.statements
              /\ database_arg' = arg
    /\ op' = "do_switch_context"
    /\ calls' = calls + 1
    /\ UNCHANGED <<engineVars, result, names, table_name, rows, entries>>
    /\ UNCHANGED <<configVars, settingsVars, quoteVars>>

NextSession == Connect \/ GetDatabases \/ DoSwitchContext

SpecSession == InitSession /\ [][NextSession]_vars

-----------------------------------------------------------------------------
(* Properties of the name extraction *)

\* The priority list as the documentation gives it
DocumentedPriority == <<sTablename, sTabName, sTableName, sName>>

\* The place of a column's lowered label in that list, 0 if it has none
PriorityRank(label) ==
    IF \E k \in 1..Len(DocumentedPriority) : DocumentedPriority[k] = Lower(label)
    THEN CHOOSE k \in 1..Len(DocumentedPriority) : DocumentedPriority[k] = Lower(label)
    ELSE 0

\* The columns of a result whose label is in the list
PriorityColumns(frame) ==
    {i \in 1..Len(frame.columns) : PriorityRank(frame.columns[i]) > 0}

\* C6: for a non-empty result with a column whose lowered label is in the
\* priority list, the names are the values of a matching column of the
\* earliest listed label, as strings, one per row, in row order.
NameExtractionPriority ==
    pc = "done" /\ op = "_extract_table_names" /\ ~Empty(result)
        /\ PriorityColumns(result) # {} =>
    \E i \in PriorityColumns(result) :
        /\ \A j \in PriorityColumns(result) :
              PriorityRank(result.columns[i]) <= PriorityRank(result.columns[j])
        /\ Len(names) = Len(result.data)
        /\ \A r \in 1..Len(result.data) : names[r] = PyStr(result.data[r][i])

\* Columns (database, tableName, isTemporary) with the row
\* (default, table_a, false) gave [table_a].
NameExtractionWitness ==
    /\ pc = "done" /\ op = "_extract_table_names"
    /\ result.columns = <<sDatabaseLabel, sTableNameLabel, sIsTemporaryLabel>>
    /\ result.data = <<<<StrV(sDefault), StrV(sTableA), BoolV(FALSE)>>>>
    /\ names = <<sTableA>>

\* A row of SHOW VIEWS: a database name, a view name, a temporary flag
IsViewRow(row) ==
    /\ row[1].t = "str" /\ Strip(row[1].s) # <<>>
    /\ row[2].t = "str" /\ Strip(row[2].s) # <<>>
    /\ row[3].t = "bool"

\* C7: when SHOW VIEWS returns columns (database, viewName, isTemporary),
\* get_views returns the values of the viewName column in row order; the
\* row (default, view_a, false) gives [view_a].
GetViewsReturnsViewNames ==
    pc = "done" /\ op = "get_views" /\ ~raised
        /\ result.columns = <<sDatabaseLabel, sViewNameLabel, sIsTemporaryLabel>>
        /\ Len(result.data) > 0
        /\ (\A r \in 1..Len(result.data) : IsViewRow(result.data[r])) =>
    /\ Len(names) = Len(result.data)
    /\ \A r \in 1..Len(result.data) : names[r] = result.data[r][2].s

\* The columns of a result that hold a string value
StringColumns(frame) ==
    {i \in 1..Len(frame.columns) :
        \E r \in 1..Len(frame.data) : frame.data[r][i].t = "str"}

\* The columns of a result that hold a string value with a non-space character
NonBlankColumns(frame) ==
    {i \in 1..Len(frame.columns) :
        \E r \in 1..Len(frame.data) :
            /\ frame.data[r][i].t = "str"
            /\ \E k \in 1..Len(frame.data[r][i].s) : ~IsSpace(frame.data[r][i].s[k])}

\* The string values of column i from row r on that have a non-space
\* character, in row order
RECURSIVE NonBlankStringsFrom(_, _, _)
NonBlankStringsFrom(frame, i, r) ==
    IF r > Len(frame.data) THEN <<>>
    ELSE LET v == frame.data[r][i]
         IN  (IF v.t = "str" /\ (\E k \in 1..Len(v.s) : ~IsSpace(v.s[k]))
              THEN <<v.s>> ELSE <<>>)
             \o NonBlankStringsFrom(frame, i, r + 1)

\* The values of column i from row r on that are neither None nor a boolean,
\* as strings, in row order
RECURSIVE OtherValuesFrom(_, _, _)
OtherValuesFrom(frame, i, r) ==
    IF r > Len(frame.data) THEN <<>>
    ELSE LET v == frame.data[r][i]
         IN  (IF v.t \in {"none", "bool"} THEN <<>> ELSE <<PyStr(v)>>)
             \o OtherValuesFrom(frame, i, r + 1)

First(S) == CHOOSE i \in S : \A j \in S : i <= j

\* C12 as stated: for a non-empty result with no column of the priority
\* list, the first column that holds a string value gives the names, which
\* are its non-blank strings in row order, also when there is none.
StringFallbackFirstColumn ==
    pc = "done" /\ op = "_extract_table_names" /\ ~Empty(result)
        /\ PriorityColumns(result) = {} /\ StringColumns(result) # {} =>
    names = NonBlankStringsFrom(result, First(StringColumns(result)), 1)

\* C12, amended: for a non-empty result with no column of the priority list,
\* the first column that holds a non-blank string gives the names, which are
\* its non-blank strings in row order; the columns whose strings are all
\* blank are passed over, and when every string is blank the names are the
\* values, other than None and booleans, of the first column that has any.
StringFallbackFirstNonBlank ==
    pc = "done" /\ op = "_extract_table_names" /\ ~Empty(result)
        /\ PriorityColumns(result) = {} /\ StringColumns(result) # {} =>
    IF NonBlankColumns(result) # {}
    THEN names = NonBlankStringsFrom(result, First(NonBlankColumns(result)), 1)
    ELSE \E i \in 1..Len(result.columns) :
            /\ names = OtherValuesFrom(result, i, 1)
            /\ names # <<>>
            /\ \A j \in 1..(i - 1) : OtherValuesFrom(result, j, 1) = <<>>

\* Columns (database, viewName) with the row (" ", view_a): the first column
\* holds only a blank string, and the names are those of the second.
StringFallbackWitness ==
    /\ pc = "done" /\ op = "_extract_table_names"
    /\ result.columns = <<sDatabaseLabel, sViewNameLabel>>
    /\ result.data = <<<<StrV(<<" ">>), StrV(sViewA)>>>>
    /\ names = <<sViewA>>

-----------------------------------------------------------------------------
(* Properties of the schema description *)

\* The name field of a row, trimmed (a missing name reads as empty)
TrimmedName(frame, r) ==
    IF frame.data[r][1] = NoneV THEN <<>> ELSE Strip(PyStr(frame.data[r][1]))

\* The rows that end the real columns
SentinelRows(frame) ==
    {r \in 1..Len(frame.data) :
        \/ Len(TrimmedName(frame, r)) = 0
        \/ TrimmedName(frame, r)[1] = "#"}

\* C8: get_schema returns one record per row before the first row whose
\* trimmed name is empty or begins with "#", in row order, and none for that
\* row or a later one; every record has nullable true, pk false and no
\* default value.
SchemaStopsOnSentinel ==
    pc = "done" /\ op = "get_schema" /\ table_name # <<>> =>
        /\ \A r \in 1..Len(result.data) :
              (r <= Len(rows)) <=> (\A q \in 1..r : q \notin SentinelRows(result))
        /\ Len(rows) <= Len(result.data)
        /\ \A k \in 1..Len(rows) :
              /\ rows[k].name = TrimmedName(result, k)
              /\ rows[k].cid = k - 1
              /\ rows[k].nullable = TRUE
              /\ rows[k].pk = FALSE
              /\ rows[k].default_value = NoneV

\* Rows id, dt, "# Partition Information", id gave the records of id and dt.
SchemaStopsWitness ==
    /\ pc = "done" /\ op = "get_schema" /\ table_name # <<>>
    /\ Len(result.columns) = 3
    /\ Len(result.data) = 4
    /\ result.data[1][1] = StrV(<<"i", "d">>)
    /\ result.data[2][1] = StrV(<<" ", "d", "t", " ">>)
    /\ result.data[3][1] = StrV(sPartitionInformation)
    /\ result.data[4][1] = StrV(<<"i", "d">>)
    /\ Len(rows) = 2
    /\ rows[1].name = <<"i", "d">>
    /\ rows[2].name = <<"d", "t">>

\* A DESCRIBE result with the columns it lacks added, their cells empty
WithAllColumns(frame) ==
    Frame(DescribeLabels,
          [r \in 1..Len(frame.data) |->
             [c \in 1..Len(DescribeLabels) |->
                IF c <= Len(frame.columns) THEN frame.data[r][c] ELSE StrV(<<>>)]])

\* C13: for a DESCRIBE result of one column (names) or two (names, types),
\* get_schema returns a record per row before the first sentinel row, with
\* the type empty when there is no type column and the comment None when
\* there is no comment column, and as many records, of the same names and
\* positions, as for the result with the missing columns present.
SchemaToleratesMissingColumns ==
    pc = "done" /\ op = "get_schema" /\ table_name # <<>>
        /\ Len(result.columns) \in {1, 2} =>
    LET full == get_schema(table_name, WithAllColumns(result))
    IN  /\ Len(rows) = Len(full)
        /\ \A r \in 1..Len(result.data) :
              (r <= Len(rows)) <=> (\A q \in 1..r : q \notin SentinelRows(result))
        /\ \A k \in 1..Len(rows) :
              /\ rows[k].name = full[k].name
              /\ rows[k].name = TrimmedName(result, k)
              /\ rows[k].cid = full[k].cid
              /\ rows[k].comment = NoneV
              /\ Len(result.columns) = 1 => rows[k].type = <<>>
              /\ Len(result.columns) = 2 =>
                    rows[k].type = Strip(PyStr(result.data[k][2]))

\* A result of the one column col_name with the rows id and dt gave two
\* records with an empty type and no comment.
SchemaMissingColumnsWitness ==
    /\ pc = "done" /\ op = "get_schema" /\ table_name # <<>>
    /\ Len(result.columns) = 1
    /\ Len(result.data) = 2
    /\ Len(rows) = 2
    /\ rows[1].name = <<"i", "d">> /\ rows[2].name = <<"d", "t">>
    /\ rows[2].cid = 1
    /\ rows[2].type = <<>>
    /\ rows[2].comment = NoneV

-----------------------------------------------------------------------------
(* Properties of the settings normalization *)

\* C9: the normalized settings have the same keys, every value is a string:
\* the empty string for None, "true" / "false" for a boolean, the decimal
\* digits for an integer, the string itself for a string.
SettingsSerialized ==
    pc = "done" /\ op = "_normalize_configuration" =>
        /\ DOMAIN normalized = DOMAIN configuration
        /\ \A key \in DOMAIN configuration :
              LET value == configuration[key]
                  text == normalized[key]
              IN  /\ text.t = "str"
                  /\ value = NoneV => text.s = <<>>
                  /\ value = BoolV(TRUE) => text.s = <<"t", "r", "u", "e">>
                  /\ value = BoolV(FALSE) => text.s = <<"f", "a", "l", "s", "e">>
                  /\ value.t = "int" => IsDigit(text.s) /\ ParseDigits(text.s) = value.n
                  /\ value.t = "str" => text.s = value.s

\* {a: None, b: True, c: 100} gave {a: "", b: "true", c: "100"}.
SettingsSerializedWitness ==
    /\ pc = "done" /\ op = "_normalize_configuration"
    /\ configuration =
          [key \in {<<"a">>, <<"b">>, <<"c">>} |->
              IF key = <<"a">> THEN NoneV
              ELSE IF key = <<"b">> THEN BoolV(TRUE) ELSE IntV(100)]
    /\ normalized =
          [key \in {<<"a">>, <<"b">>, <<"c">>} |->
              IF key = <<"a">> THEN StrV(<<>>)
              ELSE IF key = <<"b">> THEN StrV(<<"t", "r", "u", "e">>)
              ELSE StrV(<<"1", "0", "0">>)]

-----------------------------------------------------------------------------
(* Properties of the identifier quoting *)

\* Every backtick of s is followed or preceded by its partner: reading from
\* the left, backticks come two by two.
RECURSIVE Paired(_)
Paired(s) ==
    IF Len(s) = 0 THEN TRUE
    ELSE IF s[1] # Backtick THEN Paired(Slice(s, 1))
    ELSE Len(s) >= 2 /\ s[2] = Backtick /\ Paired(Slice(s, 2))

\* s with every two backticks read as one
RECURSIVE Undouble(_)
Undouble(s) ==
    IF Len(s) = 0 THEN <<>>
    ELSE IF s[1] = Backtick /\ Len(s) >= 2 /\ s[2] = Backtick
         THEN <<Backtick>> \o Undouble(Slice(s, 2))
         ELSE <<s[1]>> \o Undouble(Slice(s, 1))

\* The number of backticks of s
Backticks(s) == Cardinality({i \in 1..Len(s) : s[i] = Backtick})

\* The text between the first and the last character
Interior(q) == SubSeq(q, 2, Len(q) - 1)

\* C10: a quoted identifier starts and ends with a backtick; between them
\* every backtick of the identifier is doubled and nothing else changes, so
\* no backtick is unpaired, undoubling gives the identifier back, and two
\* identifiers that differ are quoted differently.
IdentifierQuoted ==
    /\ \A k \in 1..Len(quoted) :
          LET q == quoted[k]
              ident == identifier[k]
          IN  /\ Len(q) >= 2
              /\ q[1] = Backtick
              /\ q[Len(q)] = Backtick
              /\ Len(Interior(q)) = Len(ident) + Backticks(ident)
              /\ Paired(Interior(q))
              /\ Undouble(Interior(q)) = ident
    /\ Len(quoted) = 2 /\ identifier[1] # identifier[2] => quoted[1] # quoted[2]

\* The identifier a, backtick, b was quoted as backtick, a, two backticks, b,
\* backtick.
IdentifierQuotedWitness ==
    /\ Len(quoted) >= 1
    /\ identifier[1] = <<"a", Backtick, "b">>
    /\ quoted[1] = <<Backtick, "a", Backtick, Backtick, "b", Backtick>>

-----------------------------------------------------------------------------
(* Properties of the calls on a new connector *)

ListingCallNames ==
    {"get_tables", "get_views", "get_tables_with_ddl", "get_views_with_ddl"}

\* C11: when the query of a call returns a result of no row, whatever its
\* columns, get_tables and get_views return no name and get_schema returns
\* no record.
EmptyResultEmptyOutput ==
    pc = "done" /\ ~raised /\ result # Unset =>
        (Len(result.data) = 0 =>
            /\ op \in ListingCallNames => names = <<>>
            /\ op = "get_schema" => rows = <<>>)

\* SHOW TABLES returned the columns (database, tableName, isTemporary) and
\* no row, and get_tables returned no name.
EmptyResultWitness ==
    /\ pc = "done" /\ op = "get_tables" /\ ~raised
    /\ result.columns = <<sDatabaseLabel, sTableNameLabel, sIsTemporaryLabel>>
    /\ result.data = <<>>
    /\ names = <<>>

\* C16: when the listing query raises, get_views returns the empty list and
\* get_tables raises; get_views_with_ddl returns the empty list and
\* get_tables_with_ddl raises.
ListingFailureHandling ==
    raised /\ op \in ListingCallNames =>
        /\ op = "get_views" => pc = "done" /\ names = <<>>
        /\ op = "get_tables" => pc = "raised" /\ names = Unset
        /\ op = "get_views_with_ddl" => pc = "done" /\ entries = <<>>
        /\ op = "get_tables_with_ddl" => pc = "raised" /\ entries = Unset

\* SHOW VIEWS raised in get_views_with_ddl, which returned the empty list.
ListingFailureWitness ==
    /\ op = "get_views_with_ddl" /\ raised
    /\ pc = "done"
    /\ statements = <<sShowViewsIn \o quote_identifier(sDefault)>>
    /\ entries = <<>>

-----------------------------------------------------------------------------
(* Properties of the connection *)

\* A step in which connect is called: connect itself or a metadata call
CallsConnect == connects' # connects

\* C14: a call that calls connect while the connector has an engine of its
\* own leaves the engine and the connection as they are and calls
\* create_engine no more; so once a connect has succeeded, the metadata calls
\* that follow make no other engine.
ConnectIdempotent ==
    [][CallsConnect /\ engine # NoneV /\ owns_engine =>
          /\ engine' = engine
          /\ connection' = connection
          /\ owns_engine'
          /\ engines' = engines]_vars

\* Three calls of connect, the last by get_databases, of which the first
\* made the one engine there is.
ConnectIdempotentWitness ==
    /\ op = "get_databases" /\ pc = "done"
    /\ connects = 3
    /\ engines = 1
    /\ engine = IntV(1) /\ connection = IntV(1) /\ owns_engine

\* C15: do_switch_context with a database issues the USE statement of that
\* database and takes it as the connector's database when the statement has
\* run; when the statement raises, the connector's database is as before;
\* with no database nothing is issued and nothing changes.  The
\* configuration record stays as it is.
SwitchAfterUse ==
    [][op' = "do_switch_context" /\ calls' # calls =>
          /\ config' = config
          /\ kwargs' = kwargs
          /\ IF database_arg' = <<>>
             THEN /\ statements' = <<>>
                  /\ database_name' = database_name
                  /\ pc' = "done"
             ELSE /\ statements' = <<sUse \o <<Backtick>>
                                      \o ReplaceBackticks(database_arg')
                                      \o <<Backtick>>>>
                  /\ raised' => database_name' = database_name /\ pc' = "raised"
                  /\ ~raised' => database_name' = database_arg' /\ pc' = "done"]_vars

\* A switch to the database test raised on a connector of the database
\* default, which is still its database.
SwitchAfterUseWitness ==
    /\ op = "do_switch_context" /\ pc = "raised" /\ raised
    /\ database_arg = sTest
    /\ database_name = sDefault
    /\ config.database = NoneV

====
